---- MODULE Spec2Model ----
(***************************************************************************)
(* Model of the quorum-acceptance loop of cmd/mirroring (goroutines.go,    *)
(* second main package): every cycle globs the monitor log files, reads    *)
(* the last two checkpoints of each, tallies the tree sizes, selects one   *)
(* checkpoint, appends it to accepted_chpt.txt and truncates that file to  *)
(* its last 20 lines.                                                      *)
(*                                                                         *)
(* A string is a sequence of one-character strings.  A monitor file is a   *)
(* sequence of lines (what bufio.Scanner yields for it); the accepted log  *)
(* is kept as the file's characters, newlines included, so that the write  *)
(* (Fprintln) and the read back (bufio.Scanner) are both computed.         *)
(***************************************************************************)
EXTENDS Integers, Sequences, FiniteSets, TLC

\* ------------------------------------------------------------------ bounds
\* Monitor files in the directory.
MaxMonitors == 3
\* Lines in all the monitor files together, and in one of them, when the
\* monitors write lines that carry a tree size.
MaxLines == 4
MaxFileLines == 2
\* Lines in all the monitor files together when the monitors write any line.
MaxAnyLines == 3
\* Cycles the process runs.
MaxCycles == 1
\* Tree sizes 0..MaxTreeSize and timestamps 0..MaxTimestamp.
MaxTreeSize == 1
MaxTimestamp == 2
\* Lines of the accepted log the process starts beside.
MaxInitLog == 25
\* Minutes an -interval argument on the command line may ask for.
MaxInterval == 3
\* Cycles of a run that goes round the loop more than once.
MaxRepeat == 2
\* Monitor files of a run that only exercises the threshold.
MaxThresholdMonitors == 12

\* ------------------------------------------------------- program constants
Retained == 20
Window == 2
\* The default of the interval flag, in minutes.
DefaultInterval == 1

\* ----------------------------------------------------------------- strings
Digits == <<"0", "1", "2", "3", "4", "5", "6", "7", "8", "9">>

IsDigit(c) == \E d \in 1..10 : Digits[d] = c

DigitVal(c) == (CHOOSE d \in 1..10 : Digits[d] = c) - 1

IsSpace(c) == c \in {" ", "\t", "\r", "\n"}

NL == <<"\n">>

\* The in-line field separator: the two characters backslash and n.
SEP == <<"\\", "n">>

COLON == <<":">>

\* strings.Index: the first position where sep starts in s, 0 when absent.
Index(s, sep) ==
  LET hits == {k \in 1..(Len(s) - Len(sep) + 1) : SubSeq(s, k, k + Len(sep) - 1) = sep}
  IN  IF hits = {} THEN 0 ELSE CHOOSE k \in hits : \A h \in hits : k <= h

RECURSIVE Split(_, _)
\* strings.Split for a non-empty separator.
Split(s, sep) ==
  LET k == Index(s, sep)
  IN  IF k = 0 THEN <<s>>
      ELSE <<SubSeq(s, 1, k - 1)>> \o Split(SubSeq(s, k + Len(sep), Len(s)), sep)

RECURSIVE Join(_, _)
\* strings.Join: what a producer does to lay the fields out on one line.
Join(fields, sep) ==
  IF fields = <<>> THEN <<>>
  ELSE IF Len(fields) = 1 THEN fields[1]
  ELSE fields[1] \o sep \o Join(Tail(fields), sep)

RECURSIVE TrimLeft(_)
TrimLeft(s) == IF s # <<>> /\ IsSpace(s[1]) THEN TrimLeft(Tail(s)) ELSE s

RECURSIVE TrimRight(_)
TrimRight(s) ==
  IF s # <<>> /\ IsSpace(s[Len(s)]) THEN TrimRight(SubSeq(s, 1, Len(s) - 1)) ELSE s

\* strings.TrimSpace
TrimSpace(s) == TrimRight(TrimLeft(s))

RECURSIVE DigitsValue(_)
DigitsValue(s) ==
  IF s = <<>> THEN 0
  ELSE 10 * DigitsValue(SubSeq(s, 1, Len(s) - 1)) + DigitVal(s[Len(s)])

\* strconv.ParseInt(s, 10, 64): an optional sign, then one or more decimal
\* digits; anything else is a syntax error.  (The strings of this model are
\* far too short to leave the 64-bit range.)
ParseIntBase10(s) ==
  LET signed == s # <<>> /\ s[1] \in {"+", "-"}
      body   == IF signed THEN Tail(s) ELSE s
  IN  IF body = <<>> \/ \E k \in 1..Len(body) : ~IsDigit(body[k])
      THEN [ok |-> FALSE, val |-> 0]
      ELSE [ok |-> TRUE,
            val |-> IF signed /\ s[1] = "-" THEN 0 - DigitsValue(body)
                    ELSE DigitsValue(body)]

\* strconv.Atoi accepts the same syntax.
Atoi(s) == ParseIntBase10(s)

RECURSIVE NatDigits(_)
NatDigits(n) ==
  IF n < 10 THEN <<Digits[n + 1]>> ELSE NatDigits(n \div 10) \o <<Digits[(n % 10) + 1]>>

\* strconv.Itoa
Itoa(n) == IF n < 0 THEN <<"-">> \o NatDigits(0 - n) ELSE NatDigits(n)

\* ---------------------------------------------------- monitor log lines
Origin == <<"O">>

Hash == <<"H">>

\* The metadata field of a checkpoint, "t: <timestamp>".
TsField(t) == <<"t", ":", " ">> \o Itoa(t)

\* A well-formed checkpoint line: origin, tree size, root hash, metadata.
GoodLine(sz, t) == Join(<<Origin, Itoa(sz), Hash, TsField(t)>>, SEP)

GoodLines == {GoodLine(sz, t) : sz \in 0..MaxTreeSize, t \in 1..MaxTimestamp}

\* The timestamp 0, on the largest tree size.
ZeroTsLine == GoodLine(MaxTreeSize, 0)

\* The largest tree size written with a sign: "+1" parses to the integer 1.
AliasLine == Join(<<Origin, <<"+">> \o Itoa(MaxTreeSize), Hash, TsField(1)>>, SEP)

\* A valid tree size with a metadata value that is no integer.
BadTsLine == Join(<<Origin, Itoa(MaxTreeSize), Hash, <<"t", ":", " ", "x">>>>, SEP)

\* A valid tree size with a metadata field that holds no colon.
NoColonLine == Join(<<Origin, Itoa(MaxTreeSize), Hash, <<"t">>>>, SEP)

\* A valid tree size and no fourth field.
NoTsFieldLine == Join(<<Origin, Itoa(MaxTreeSize), Hash>>, SEP)

\* A tree-size field that is no integer.
BadSizeLine == Join(<<Origin, <<"x">>, Hash, TsField(1)>>, SEP)

\* No tree-size field at all.
NoSizeLine == Origin

\* Lines that carry a tree size and a metadata field with a colon.
Pool == GoodLines \cup {ZeroTsLine, AliasLine, BadTsLine}

\* Lines on which an index expression of main is out of range or Atoi fails.
MalformedLines == {NoColonLine, NoTsFieldLine, BadSizeLine, NoSizeLine}

AnyPool == Pool \cup MalformedLines

\* ------------------------------------------------------------------ state
VARIABLES
  pc,                \* where main is: glob, tally, open, select, write, truncate, sleep, exited
  exit,              \* none, fatal (log.Fatalf) or panic (index out of range)
  files,             \* the files matching ./logInfo*.txt in name order, each a sequence of lines
  accepted,          \* the characters of accepted_chpt.txt
  openFiles,         \* handles on accepted_chpt.txt opened by main and not closed
  cycles,            \* completed cycles
  logBefore,         \* history: accepted_chpt.txt when the running cycle started
  monitors,          \* len(monitors) of the running cycle
  i,                 \* the quorum threshold of the running cycle
  checkpoints,       \* per monitor, the lines readLatestCheckpoints returned
  counts,            \* the tally, keyed by strconv.Itoa(treeSize)
  maxTreeSize,
  largestTimestamp,
  latest_chpt,
  scanned,           \* checkpoints the selection scan has gone past
  cmdline,           \* minutes given as -interval on the command line, 0 when not given
  interval,          \* *interval, the value of the flag, in minutes
  slept,             \* history: minutes the last time.Sleep lasted
  prevFiles,         \* history: the monitor files of the last completed cycle
  prevSelected       \* history: latest_chpt of the last completed cycle

vars == <<pc, exit, files, accepted, openFiles, cycles, logBefore, monitors, i,
          checkpoints, counts, maxTreeSize, largestTimestamp, latest_chpt, scanned,
          cmdline, interval, slept, prevFiles, prevSelected>>

locals == <<monitors, i, checkpoints, counts, maxTreeSize, largestTimestamp, latest_chpt,
            scanned>>

flags == <<cmdline, interval>>

past == <<slept, prevFiles, prevSelected>>

\* ------------------------------------------------------ readLatestCheckpoints
RECURSIVE ReadFrom(_, _)
ReadFrom(rest, kept) ==
  IF rest = <<>> THEN kept
  ELSE LET a == Append(kept, Head(rest))
       IN  ReadFrom(Tail(rest),
                    IF Len(a) > Window THEN SubSeq(a, Len(a) - Window + 1, Len(a)) ELSE a)

\* Variant: the scan stops once two lines are held.
readLatestCheckpoints_First(lines) ==
  SubSeq(lines, 1, IF Len(lines) > Window THEN Window ELSE Len(lines))

readLatestCheckpoints(lines) == ReadFrom(lines, <<>>)

\* ------------------------------------------------------------ the threshold
\* Mutant: a simple majority, rounded down.
Round75_Half(n) == n \div 2

\* Variant: int(0.75 * n) without math.Round.
Round75_Trunc(n) == (3 * n) \div 4

\* int(math.Round(0.75 * float64(n))): halves round away from zero.
Round75(n) == (3 * n + 2) \div 4

\* -------------------------------------------------------------- tally pass
RECURSIVE Flatten(_)
\* The order of the two nested range loops: monitor by monitor, line by line.
Flatten(cps) == IF cps = <<>> THEN <<>> ELSE Head(cps) \o Flatten(Tail(cps))

Count(cnt, key) == IF key \in DOMAIN cnt THEN cnt[key] ELSE 0

\* Mutant: the entry is set, not incremented.
Incr_Once(cnt, key) == cnt @@ (key :> 1)

Incr(cnt, key) ==
  IF key \in DOMAIN cnt THEN [cnt EXCEPT ![key] = @ + 1] ELSE cnt @@ (key :> 1)

RECURSIVE TallyFrom_Skip(_, _)
\* Mutant: a line without an integer tree size is skipped, not fatal.
TallyFrom_Skip(list, cnt) ==
  IF list = <<>> THEN [exit |-> "none", counts |-> cnt]
  ELSE LET fields == Split(Head(list), SEP)
       IN  IF Len(fields) < 2 \/ ~Atoi(fields[2]).ok THEN TallyFrom_Skip(Tail(list), cnt)
           ELSE TallyFrom_Skip(Tail(list), Incr(cnt, Itoa(Atoi(fields[2]).val)))

RECURSIVE TallyFrom(_, _)
TallyFrom(list, cnt) ==
  IF list = <<>> THEN [exit |-> "none", counts |-> cnt]
  ELSE LET fields == Split(Head(list), SEP)
       IN  IF Len(fields) < 2 THEN [exit |-> "panic", counts |-> cnt]
           ELSE LET treeSize == Atoi(fields[2])
                IN  IF ~treeSize.ok THEN [exit |-> "fatal", counts |-> cnt]
                    ELSE TallyFrom(Tail(list), Incr(cnt, Itoa(treeSize.val)))

TallyPass(cps) == TallyFrom(Flatten(cps), <<>>)

\* ---------------------------------------------------------- selection pass
\* Variant: maxTreeSize is raised only after the same-size test has been made.
ScanStep_LateMax(st, chpt, cnt, thr) ==
  LET fields == Split(chpt, SEP)
  IN  IF Len(fields) < 2 THEN [st EXCEPT !.exit = "panic"]
      ELSE LET treeSize == Atoi(fields[2])
           IN  IF ~treeSize.ok THEN [st EXCEPT !.exit = "fatal"]
               ELSE IF Count(cnt, Itoa(treeSize.val)) >= thr /\ treeSize.val >= st.maxTreeSize
               THEN LET st1 == [st EXCEPT !.maxTreeSize = treeSize.val]
                    IN  IF Len(fields) < 4 THEN [st1 EXCEPT !.exit = "panic"]
                        ELSE LET parts == Split(fields[4], COLON)
                             IN  IF Len(parts) < 2 THEN [st1 EXCEPT !.exit = "panic"]
                                 ELSE LET timestamp == ParseIntBase10(TrimSpace(parts[2]))
                                      IN  IF ~timestamp.ok THEN st1
                                          ELSE IF treeSize.val = st.maxTreeSize
                                                  /\ timestamp.val > st.largestTimestamp
                                          THEN [st1 EXCEPT !.largestTimestamp = timestamp.val,
                                                           !.latest_chpt = chpt]
                                          ELSE st1
               ELSE st

\* Variant: a timestamp equal to the largest one replaces the candidate too.
ScanStep_GE(st, chpt, cnt, thr) ==
  LET fields == Split(chpt, SEP)
  IN  IF Len(fields) < 2 THEN [st EXCEPT !.exit = "panic"]
      ELSE LET treeSize == Atoi(fields[2])
           IN  IF ~treeSize.ok THEN [st EXCEPT !.exit = "fatal"]
               ELSE IF Count(cnt, Itoa(treeSize.val)) >= thr /\ treeSize.val >= st.maxTreeSize
               THEN LET st1 == [st EXCEPT !.maxTreeSize = treeSize.val]
                    IN  IF Len(fields) < 4 THEN [st1 EXCEPT !.exit = "panic"]
                        ELSE LET parts == Split(fields[4], COLON)
                             IN  IF Len(parts) < 2 THEN [st1 EXCEPT !.exit = "panic"]
                                 ELSE LET timestamp == ParseIntBase10(TrimSpace(parts[2]))
                                      IN  IF ~timestamp.ok THEN st1
                                          ELSE IF treeSize.val = st1.maxTreeSize
                                                  /\ timestamp.val >= st1.largestTimestamp
                                          THEN [st1 EXCEPT !.largestTimestamp = timestamp.val,
                                                           !.latest_chpt = chpt]
                                          ELSE st1
               ELSE st

\* One iteration of the inner loop of the second scan.
ScanStep(st, chpt, cnt, thr) ==
  LET fields == Split(chpt, SEP)
  IN  IF Len(fields) < 2 THEN [st EXCEPT !.exit = "panic"]
      ELSE LET treeSize == Atoi(fields[2])
           IN  IF ~treeSize.ok THEN [st EXCEPT !.exit = "fatal"]
               ELSE IF Count(cnt, Itoa(treeSize.val)) >= thr /\ treeSize.val >= st.maxTreeSize
               THEN LET st1 == [st EXCEPT !.maxTreeSize = treeSize.val]
                    IN  IF Len(fields) < 4 THEN [st1 EXCEPT !.exit = "panic"]
                        ELSE LET parts == Split(fields[4], COLON)
                             IN  IF Len(parts) < 2 THEN [st1 EXCEPT !.exit = "panic"]
                                 ELSE LET timestamp == ParseIntBase10(TrimSpace(parts[2]))
                                      IN  IF ~timestamp.ok THEN st1
                                          ELSE IF treeSize.val = st1.maxTreeSize
                                                  /\ timestamp.val > st1.largestTimestamp
                                          THEN [st1 EXCEPT !.largestTimestamp = timestamp.val,
                                                           !.latest_chpt = chpt]
                                          ELSE st1
               ELSE st

RECURSIVE ScanFrom(_, _, _, _)
ScanFrom(list, st, cnt, thr) ==
  IF list = <<>> \/ st.exit # "none" THEN st
  ELSE ScanFrom(Tail(list), ScanStep(st, Head(list), cnt, thr), cnt, thr)

ScanInit == [exit |-> "none", maxTreeSize |-> 0, largestTimestamp |-> 0, latest_chpt |-> <<>>]

SelectPass(cps, cnt, thr) == ScanFrom(Flatten(cps), ScanInit, cnt, thr)

\* -------------------------------------------------------- accepted_chpt.txt
\* Mutant: nothing is written when no checkpoint was selected.
Fprintln_SkipEmpty(content, line) == IF line = <<>> THEN content ELSE content \o line \o <<"\n">>

\* fmt.Fprintln on a handle opened with O_APPEND.
Fprintln(content, line) == content \o line \o NL

DropCR(s) == IF s # <<>> /\ s[Len(s)] = "\r" THEN SubSeq(s, 1, Len(s) - 1) ELSE s

RECURSIVE ScanLines(_)
\* The tokens bufio.Scanner yields with its default split function.
ScanLines(content) ==
  IF content = <<>> THEN <<>>
  ELSE LET k == Index(content, NL)
       IN  IF k = 0 THEN <<DropCR(content)>>
           ELSE <<DropCR(SubSeq(content, 1, k - 1))>>
                \o ScanLines(SubSeq(content, k + 1, Len(content)))

RECURSIVE WriteLines(_)
WriteLines(lines) ==
  IF lines = <<>> THEN <<>> ELSE Head(lines) \o NL \o WriteLines(Tail(lines))

\* Mutant: the comparison lets one line more through.
deleteOldCheckpoints_OffByOne(content) ==
  LET lines == ScanLines(content)
  IN  IF Len(lines) <= Retained + 1 THEN content
      ELSE WriteLines(SubSeq(lines, Len(lines) - Retained + 1, Len(lines)))

\* Mutant: the first lines are kept, not the last.
deleteOldCheckpoints_Head(content) ==
  LET lines == ScanLines(content)
  IN  IF Len(lines) <= Retained THEN content
      ELSE WriteLines(SubSeq(lines, 1, Retained))

deleteOldCheckpoints(content) ==
  LET lines == ScanLines(content)
  IN  IF Len(lines) <= Retained THEN content
      ELSE WriteLines(SubSeq(lines, Len(lines) - Retained + 1, Len(lines)))

\* ------------------------------------------------------------- environment
RECURSIVE TotalLines(_)
TotalLines(fs) == IF fs = <<>> THEN 0 ELSE Len(Head(fs)) + TotalLines(Tail(fs))

\* A monitor process starts and creates its log file.
MonitorAppear ==
  /\ pc = "glob" /\ cycles < MaxCycles
  /\ Len(files) < MaxMonitors
  /\ files' = Append(files, <<>>)
  /\ UNCHANGED <<flags, past, pc, exit, accepted, openFiles, cycles, logBefore, locals>>

\* A monitor process appends a line of `pool` to its log file.
WriteLine(pool, perFile, total) ==
  /\ pc = "glob" /\ cycles < MaxCycles
  /\ TotalLines(files) < total
  /\ \E m \in 1..Len(files), line \in pool :
       /\ Len(files[m]) < perFile
       /\ files' = [files EXCEPT ![m] = Append(@, line)]
  /\ UNCHANGED <<flags, past, pc, exit, accepted, openFiles, cycles, logBefore, locals>>

\* A monitor appends a checkpoint that carries a tree size.
MonitorWrite == WriteLine(Pool, MaxFileLines, MaxLines)

\* A monitor appends any line, malformed ones included.
MonitorWriteAny == WriteLine(AnyPool, MaxAnyLines, MaxAnyLines)

\* ------------------------------------------------------------------- main
ResetLocals ==
  /\ monitors' = 0
  /\ i' = 0
  /\ checkpoints' = <<>>
  /\ counts' = <<>>
  /\ maxTreeSize' = 0
  /\ largestTimestamp' = 0
  /\ latest_chpt' = <<>>
  /\ scanned' = 0

\* filepath.Glob, the threshold, and the read of every monitor file, in a run
\* of at most `cap` cycles.
ReadMonitors(cap) ==
  /\ pc = "glob" /\ cycles < cap
  /\ monitors' = Len(files)
  /\ i' = Round75(Len(files))
  /\ checkpoints' = [m \in 1..Len(files) |-> readLatestCheckpoints(files[m])]
  /\ logBefore' = accepted
  /\ pc' = "tally"
  /\ UNCHANGED <<flags, past, exit, files, accepted, openFiles, cycles, counts,
                 maxTreeSize, largestTimestamp, latest_chpt, scanned>>

\* Variant: a directory without monitor files ends the process.
GlobRead_NoMonitorsFatal ==
  \/ files # <<>> /\ ReadMonitors(MaxCycles)
  \/ /\ files = <<>>
     /\ pc = "glob" /\ cycles < MaxCycles
     /\ pc' = "exited"
     /\ exit' = "fatal"
     /\ UNCHANGED <<flags, past, files, accepted, openFiles, cycles, logBefore, locals>>

GlobRead == ReadMonitors(MaxCycles)

\* readLatestCheckpoints returns an error (the file cannot be opened or read).
ReadError(cap) ==
  /\ pc = "glob" /\ cycles < cap
  /\ files # <<>>
  /\ pc' = "exited"
  /\ exit' = "fatal"
  /\ UNCHANGED <<flags, past, files, accepted, openFiles, cycles, logBefore, locals>>

ReadFail == ReadError(MaxCycles)

\* Variant: the accepted log is opened, with O_TRUNC, before the tally.
Tally_OpensFirst ==
  /\ pc = "tally"
  /\ LET r == TallyPass(checkpoints)
     IN  /\ counts' = r.counts
         /\ exit' = r.exit
         /\ pc' = IF r.exit = "none" THEN "open" ELSE "exited"
  /\ accepted' = <<>>
  /\ UNCHANGED <<flags, past, files, openFiles, cycles, logBefore, monitors, i,
                 checkpoints, maxTreeSize, largestTimestamp, latest_chpt, scanned>>

Tally ==
  /\ pc = "tally"
  /\ LET r == TallyPass(checkpoints)
     IN  /\ counts' = r.counts
         /\ exit' = r.exit
         /\ pc' = IF r.exit = "none" THEN "open" ELSE "exited"
  /\ UNCHANGED <<flags, past, files, accepted, openFiles, cycles, logBefore, monitors, i,
                 checkpoints, maxTreeSize, largestTimestamp, latest_chpt, scanned>>

\* os.OpenFile with O_APPEND|O_WRONLY|O_CREATE; the deferred Close never runs,
\* since main never returns.
OpenAccepted ==
  /\ pc = "open"
  /\ openFiles' = openFiles + 1
  /\ pc' = "select"
  /\ UNCHANGED <<flags, past, exit, files, accepted, cycles, logBefore, locals>>

\* Variant: a selection equal to the last line of the accepted log is dropped.
Select_SkipRepeated ==
  /\ pc = "select"
  /\ LET r == SelectPass(checkpoints, counts, i)
         line == r.latest_chpt \o NL
         repeated == /\ r.latest_chpt # <<>>
                     /\ Len(accepted) >= Len(line)
                     /\ SubSeq(accepted, Len(accepted) - Len(line) + 1, Len(accepted)) = line
     IN  /\ maxTreeSize' = r.maxTreeSize
         /\ largestTimestamp' = r.largestTimestamp
         /\ latest_chpt' = IF repeated THEN <<>> ELSE r.latest_chpt
         /\ exit' = r.exit
         /\ pc' = IF r.exit = "none" THEN "write" ELSE "exited"
  /\ UNCHANGED <<flags, past, files, accepted, openFiles, cycles, logBefore, monitors, i,
                 checkpoints, counts, scanned>>

Select ==
  /\ pc = "select"
  /\ LET r == SelectPass(checkpoints, counts, i)
     IN  /\ maxTreeSize' = r.maxTreeSize
         /\ largestTimestamp' = r.largestTimestamp
         /\ latest_chpt' = r.latest_chpt
         /\ exit' = r.exit
         /\ pc' = IF r.exit = "none" THEN "write" ELSE "exited"
  /\ UNCHANGED <<flags, past, files, accepted, openFiles, cycles, logBefore, monitors, i,
                 checkpoints, counts, scanned>>

WriteAccepted ==
  /\ pc = "write"
  /\ accepted' = Fprintln(accepted, latest_chpt)
  /\ pc' = "truncate"
  /\ UNCHANGED <<flags, past, exit, files, openFiles, cycles, logBefore, locals>>

Truncate ==
  /\ pc = "truncate"
  /\ accepted' = deleteOldCheckpoints(accepted)
  /\ cycles' = cycles + 1
  /\ pc' = "sleep"
  /\ UNCHANGED <<flags, past, exit, files, openFiles, logBefore, locals>>

\* Variant: main leaves the loop and returns after the first sleep.
Sleep_Return ==
  /\ pc = "sleep"
  /\ pc' = "exited"
  /\ ResetLocals
  /\ slept' = interval
  /\ prevFiles' = files
  /\ prevSelected' = latest_chpt
  /\ UNCHANGED <<flags, exit, files, accepted, openFiles, cycles, logBefore>>

\* time.Sleep returns and the next iteration starts with fresh locals.
Sleep ==
  /\ pc = "sleep"
  /\ pc' = "glob"
  /\ ResetLocals
  /\ slept' = interval
  /\ prevFiles' = files
  /\ prevSelected' = latest_chpt
  /\ UNCHANGED <<flags, exit, files, accepted, openFiles, cycles, logBefore>>

\* The selection scan taken one checkpoint at a time: the inner loop body on
\* the next checkpoint in monitor order, then in file order.
ScanOne ==
  /\ pc = "select"
  /\ scanned < Len(Flatten(checkpoints))
  /\ LET st == [exit |-> "none", maxTreeSize |-> maxTreeSize,
                largestTimestamp |-> largestTimestamp, latest_chpt |-> latest_chpt]
         r  == ScanStep(st, Flatten(checkpoints)[scanned + 1], counts, i)
     IN  /\ maxTreeSize' = r.maxTreeSize
         /\ largestTimestamp' = r.largestTimestamp
         /\ latest_chpt' = r.latest_chpt
         /\ exit' = r.exit
         /\ pc' = IF r.exit = "none" THEN "select" ELSE "exited"
  /\ scanned' = scanned + 1
  /\ UNCHANGED <<flags, past, files, accepted, openFiles, cycles, logBefore, monitors, i,
                 checkpoints, counts>>

\* Both loops of the scan have run out.
ScanEnd ==
  /\ pc = "select"
  /\ scanned = Len(Flatten(checkpoints))
  /\ pc' = "write"
  /\ UNCHANGED <<flags, past, exit, files, accepted, openFiles, cycles, logBefore, locals>>

Cycle == GlobRead \/ ReadFail \/ Tally \/ OpenAccepted \/ Select \/ WriteAccepted
         \/ Truncate \/ Sleep

InitLocals ==
  /\ monitors = 0
  /\ i = 0
  /\ checkpoints = <<>>
  /\ counts = <<>>
  /\ maxTreeSize = 0
  /\ largestTimestamp = 0
  /\ latest_chpt = <<>>
  /\ scanned = 0

\* flag.Duration hands out a pointer to the default; nothing parses the
\* command line, so no argument is given here.
InitFlags ==
  /\ cmdline = 0
  /\ interval = DefaultInterval

InitPast ==
  /\ slept = 0
  /\ prevFiles = <<>>
  /\ prevSelected = <<>>

\* The process starts in an empty directory; monitors come and write.
Init ==
  /\ pc = "glob"
  /\ exit = "none"
  /\ files = <<>>
  /\ accepted = <<>>
  /\ openFiles = 0
  /\ cycles = 0
  /\ logBefore = <<>>
  /\ InitLocals
  /\ InitFlags
  /\ InitPast

Next == MonitorAppear \/ MonitorWrite \/ Cycle

Spec == Init /\ [][Next]_vars

\* The same process with the selection scan seen one checkpoint at a time.
CycleScan == GlobRead \/ ReadFail \/ Tally \/ OpenAccepted \/ ScanOne \/ ScanEnd
             \/ WriteAccepted \/ Truncate \/ Sleep

NextScan == MonitorAppear \/ MonitorWrite \/ CycleScan

SpecScan == Init /\ [][NextScan]_vars

\* The same process beside monitors that also write malformed lines.
NextAny == MonitorAppear \/ MonitorWriteAny \/ Cycle

SpecAny == Init /\ [][NextAny]_vars

\* ---------------------------------------------- a log left by earlier runs
OldLine(k) == <<"o">> \o Itoa(k)

OldLog(n) == WriteLines([k \in 1..n |-> OldLine(k)])

\* No monitor, or one monitor whose file holds one line.
LogConfigs == {<<>>} \cup {<<(<<line>>)>> : line \in AnyPool}

\* The process starts beside a log of any length up to MaxInitLog.
InitLog ==
  /\ pc = "glob"
  /\ exit = "none"
  /\ files \in LogConfigs
  /\ accepted \in {OldLog(n) : n \in 0..MaxInitLog}
  /\ openFiles = 0
  /\ cycles = 0
  /\ logBefore = accepted
  /\ InitLocals
  /\ InitFlags
  /\ InitPast

SpecLog == InitLog /\ [][Cycle]_vars

\* ------------------------------------------- a directory of silent monitors
\* The process starts beside any number of monitor files that hold no line.
InitThreshold ==
  /\ pc = "glob"
  /\ exit = "none"
  /\ files \in {[m \in 1..n |-> <<>>] : n \in 0..MaxThresholdMonitors}
  /\ accepted = <<>>
  /\ openFiles = 0
  /\ cycles = 0
  /\ logBefore = <<>>
  /\ InitLocals
  /\ InitFlags
  /\ InitPast

SpecThreshold == InitThreshold /\ [][Cycle]_vars

\* --------------------------------------------- a run started with arguments
\* The command line may carry -interval=<minutes>. flag.Duration registers
\* the flag with its default; main never calls flag.Parse, so the value the
\* pointer leads to stays the default whatever the command line holds.
InitArguments ==
  /\ cmdline \in 0..MaxInterval
  /\ interval = DefaultInterval

InitFlag ==
  /\ pc = "glob"
  /\ exit = "none"
  /\ files \in LogConfigs
  /\ accepted = <<>>
  /\ openFiles = 0
  /\ cycles = 0
  /\ logBefore = <<>>
  /\ InitLocals
  /\ InitArguments
  /\ InitPast

SpecFlag == InitFlag /\ [][Cycle]_vars

\* ------------------------------------------------- a run of several cycles
\* What the directory may hold at a glob: no monitor, one monitor with one
\* line of any kind, or two monitors with one checkpoint each.
CycleConfigs ==
  LogConfigs \cup {<<(<<a>>), (<<b>>)>> : a \in GoodLines, b \in GoodLines}

\* Between two globs monitors start, stop and write: the directory changes.
MonitorsChange ==
  /\ pc = "glob" /\ cycles < MaxRepeat
  /\ files' \in CycleConfigs \ {files}
  /\ UNCHANGED <<flags, past, pc, exit, accepted, openFiles, cycles, logBefore, locals>>

GlobReadAgain == ReadMonitors(MaxRepeat)

ReadFailAgain == ReadError(MaxRepeat)

CycleAgain == GlobReadAgain \/ ReadFailAgain \/ Tally \/ OpenAccepted \/ Select
              \/ WriteAccepted \/ Truncate \/ Sleep

NextCycles == MonitorsChange \/ CycleAgain

\* main is one goroutine: its next statement always runs, and time.Sleep
\* returns. Tally and Select are enabled exactly when pc stands at them and
\* always move it, so their weak fairness is written with that condition in
\* the place of ENABLED.
MainRuns ==
  /\ WF_vars(GlobReadAgain)
  /\ ([]<>(pc # "tally") \/ []<><<Tally>>_vars)
  /\ WF_vars(OpenAccepted)
  /\ ([]<>(pc # "select") \/ []<><<Select>>_vars)
  /\ WF_vars(WriteAccepted)
  /\ WF_vars(Truncate)
  /\ WF_vars(Sleep)

SpecCycles == Init /\ [][NextCycles]_vars /\ MainRuns

\* ================================================================ claims
\* What the claims speak of, read off the monitor files and the accepted log
\* themselves rather than off the locals of main.

\* The last two lines of a monitor file.
HistoryOf(f) == SubSeq(f, IF Len(f) > 2 THEN Len(f) - 1 ELSE 1, Len(f))

\* <<monitor, place in its history>> of every retained checkpoint line.
Positions == {p \in (1..Len(files)) \X (1..2) : p[2] <= Len(HistoryOf(files[p[1]]))}

LineAt(p) == HistoryOf(files[p[1]])[p[2]]

Sized(line) == LET f == Split(line, SEP) IN Len(f) >= 2 /\ Atoi(f[2]).ok

SizeOf(line) == Atoi(Split(line, SEP)[2]).val

HasTs(line) ==
  LET f == Split(line, SEP)
  IN  /\ Len(f) >= 4
      /\ Len(Split(f[4], COLON)) >= 2
      /\ ParseIntBase10(TrimSpace(Split(f[4], COLON)[2])).ok

TsOf(line) == ParseIntBase10(TrimSpace(Split(Split(line, SEP)[4], COLON)[2])).val

SizedPositions == {p \in Positions : Sized(LineAt(p))}

SeenSizes == {SizeOf(LineAt(p)) : p \in SizedPositions}

\* Retained checkpoint lines that report tree size T.
Votes(T) == Cardinality({p \in SizedPositions : SizeOf(LineAt(p)) = T})

\* Monitor files with a retained line that reports tree size T.
Voters(T) == {p[1] : p \in {q \in SizedPositions : SizeOf(LineAt(q)) = T}}

\* 0.75 * N rounded to the nearest integer, halves upwards.
Quorum == CHOOSE q \in 0..Len(files) : (4 * q - 3 * Len(files)) \in (-1)..2

EligibleSizes == {T \in SeenSizes : Votes(T) >= Quorum}

MaxOf(S) == CHOOSE x \in S : \A y \in S : y <= x

NewlineCount(c) == Cardinality({k \in 1..Len(c) : c[k] = "\n"})

EndsLine(c) == c # <<>> /\ c[Len(c)] = "\n"

\* The characters of the last line of a file that ends with a newline.
LastLine(c) ==
  LET before == {k \in 1..(Len(c) - 1) : c[k] = "\n"}
      from   == IF before = {} THEN 1 ELSE MaxOf(before) + 1
  IN  SubSeq(c, from, Len(c) - 1)

IsSuffix(t, c) == Len(t) <= Len(c) /\ SubSeq(c, Len(c) - Len(t) + 1, Len(c)) = t

IsPrefix(t, c) == Len(t) <= Len(c) /\ SubSeq(c, 1, Len(t)) = t

\* The cycle has appended and truncated.
Done == pc = "sleep"

Appended == LastLine(accepted)

AllTimed ==
  \A p \in Positions :
     Sized(LineAt(p)) /\ HasTs(LineAt(p)) /\ TsOf(LineAt(p)) > 0

\* C2 (as claimed): when two tree sizes reach the threshold, the appended
\* checkpoint has the larger one, whatever the parseable timestamps are.
LargestEligibleWins ==
  (Done /\ AllTimed /\ Cardinality(EligibleSizes) >= 2) =>
     /\ Appended # <<>>
     /\ Sized(Appended)
     /\ SizeOf(Appended) = MaxOf(EligibleSizes)

\* The retained lines that carry the largest eligible tree size.
Carriers == {p \in SizedPositions : SizeOf(LineAt(p)) = MaxOf(EligibleSizes)}

\* C3 (as claimed): when several retained checkpoints carry the largest
\* eligible tree size, the appended record is the one of them with the
\* greatest parseable timestamp, also when smaller eligible sizes were
\* scanned before them.
TimestampTieBreak ==
  (/\ Done
   /\ AllTimed
   /\ EligibleSizes # {}
   /\ Cardinality(Carriers) >= 2) =>
     /\ \E p \in Carriers : LineAt(p) = Appended
     /\ HasTs(Appended)
     /\ \A p \in Carriers : HasTs(LineAt(p)) => TsOf(LineAt(p)) <= TsOf(Appended)

\* C4 (as claimed): a checkpoint is appended only when at least the
\* threshold number of distinct monitor files report its tree size.
QuorumOfMonitors ==
  (Done /\ Appended # <<>> /\ Sized(Appended)) =>
     Cardinality(Voters(SizeOf(Appended))) >= Quorum

OneLinePerCycle ==
  /\ pc = "truncate" =>
       /\ IsPrefix(logBefore, accepted)
       /\ NewlineCount(accepted) = NewlineCount(logBefore) + 1
       /\ EndsLine(accepted)
       /\ EligibleSizes = {} => accepted = logBefore \o <<"\n">>
  /\ (Done /\ NewlineCount(logBefore) < 20) =>
       NewlineCount(accepted) = NewlineCount(logBefore) + 1

\* The monitors hold checkpoints, none reaches the threshold, and one empty
\* line was written.
OneLinePerCycleWitness ==
  /\ pc = "truncate"
  /\ SizedPositions # {}
  /\ EligibleSizes = {}
  /\ accepted = logBefore \o <<"\n">>

\* A retained line has no tree-size field or one that is no integer.
Unsized == {p \in Positions : ~Sized(LineAt(p))}

\* C9: with a retained line whose tree size is missing or no integer, the
\* tally ends the process, whatever the other lines are, and leaves the log.
MalformedSizeFatal ==
  [][(pc = "tally" /\ Unsized # {}) =>
       (pc' = "exited" /\ exit' \in {"fatal", "panic"} /\ accepted' = accepted)]_vars

\* The tally ended the process on one malformed line although another tree
\* size reached the threshold without it.
MalformedSizeFatalWitness ==
  /\ pc = "exited"
  /\ monitors > 0
  /\ Cardinality(Unsized) = 1
  /\ EligibleSizes # {}

\* A retained line with a tree size and no parseable timestamp.
Untimed == {p \in SizedPositions : ~HasTs(LineAt(p))}

\* C10 (as claimed): with a retained line whose timestamp cannot be parsed,
\* the selection does not end the process and goes on to the write.
TimestampRecoverable ==
  [][(pc = "select" /\ Untimed # {}) => pc' = "write"]_vars

\* C11: with no monitor file the cycle is a normal one: the threshold is 0,
\* nothing is read or selected, nothing ends the process, one empty line is
\* appended, the log is truncated as usual and main returns to the glob.
ZeroMonitorCycle ==
  files = <<>> =>
    /\ pc # "exited" /\ exit = "none"
    /\ pc \in {"tally", "open", "select", "write", "truncate", "sleep"} =>
         (monitors = 0 /\ i = 0 /\ checkpoints = <<>>)
    /\ pc \in {"write", "truncate", "sleep"} => latest_chpt = <<>>
    /\ pc = "truncate" => accepted = logBefore \o <<"\n">>
    /\ (pc = "sleep" \/ (pc = "glob" /\ cycles > 0)) =>
         /\ EndsLine(accepted)
         /\ LastLine(accepted) = <<>>
         /\ IsSuffix(accepted, logBefore \o <<"\n">>)
         /\ NewlineCount(accepted) =
              IF NewlineCount(logBefore) + 1 > Retained THEN Retained
              ELSE NewlineCount(logBefore) + 1

\* A cycle without monitor files completed beside a log that had lines, and
\* main is back at the glob.
ZeroMonitorCycleWitness ==
  /\ files = <<>>
  /\ pc = "glob"
  /\ cycles = 1
  /\ exit = "none"
  /\ NewlineCount(accepted) > 1

\* C12: the threshold of a cycle over N monitor files is the integer nearest
\* to 0.75 * N, the upper one when two are equally near (4 * i differs from
\* 3 * N by at most 2, and by 2 only upwards): 3 for N = 4, 2 for N = 3, 0 for
\* N = 0, and between 1 and N for every N >= 1.
ThresholdArithmetic ==
  pc \in {"tally", "open", "select", "write", "truncate", "sleep"} =>
    LET N == Len(files)
    IN  /\ monitors = N
        /\ (4 * i - 3 * N) \in (-1)..2
        /\ (N = 4 => i = 3) /\ (N = 3 => i = 2) /\ (N = 0 => i = 0)
        /\ (N >= 1 => (1 <= i /\ i <= N))

\* Six monitors: 0.75 * 6 = 4.5 lies halfway and the threshold is 5.
ThresholdArithmeticWitness ==
  /\ pc = "tally"
  /\ Len(files) = 6
  /\ i = 5

\* C13 (as claimed): the pause after a cycle lasts what -interval on the
\* command line asks for, and one minute only when the flag is not given.
IntervalControlsSleep ==
  (pc = "glob" /\ cycles > 0) =>
     slept = IF cmdline = 0 THEN 1 ELSE cmdline

\* C14: a cycle that faces the monitor files of the cycle before it selects
\* the record that cycle selected, whatever the accepted log holds by then;
\* and N and the threshold of every cycle are those of the files it globbed.
SameFilesSameRecord ==
  /\ (pc \in {"write", "truncate"} /\ cycles >= 1 /\ files = prevFiles) =>
        latest_chpt = prevSelected
  /\ pc \in {"tally", "open", "select", "write", "truncate", "sleep"} =>
        (monitors = Len(files) /\ i = Quorum)

\* The second cycle selects a checkpoint again from the same files, beside a
\* log the first cycle did not see, with a threshold the empty directory at
\* the start did not have.
SameFilesSameRecordWitness ==
  /\ pc = "write"
  /\ cycles = 1
  /\ files = prevFiles
  /\ latest_chpt # <<>>
  /\ accepted # <<>>
  /\ i = 2

\* The iteration of the selection scan with `treeSize == maxTreeSize` taken
\* out of the condition on line 220.
ScanStepNoSameSize(st, chpt, cnt, thr) ==
  LET fields == Split(chpt, SEP)
  IN  IF Len(fields) < 2 THEN [st EXCEPT !.exit = "panic"]
      ELSE LET treeSize == Atoi(fields[2])
           IN  IF ~treeSize.ok THEN [st EXCEPT !.exit = "fatal"]
               ELSE IF Count(cnt, Itoa(treeSize.val)) >= thr /\ treeSize.val >= st.maxTreeSize
               THEN LET st1 == [st EXCEPT !.maxTreeSize = treeSize.val]
                    IN  IF Len(fields) < 4 THEN [st1 EXCEPT !.exit = "panic"]
                        ELSE LET parts == Split(fields[4], COLON)
                             IN  IF Len(parts) < 2 THEN [st1 EXCEPT !.exit = "panic"]
                                 ELSE LET timestamp == ParseIntBase10(TrimSpace(parts[2]))
                                      IN  IF ~timestamp.ok THEN st1
                                          ELSE IF timestamp.val > st1.largestTimestamp
                                          THEN [st1 EXCEPT !.largestTimestamp = timestamp.val,
                                                           !.latest_chpt = chpt]
                                          ELSE st1
               ELSE st

RECURSIVE ScanFromNoSameSize(_, _, _, _)
ScanFromNoSameSize(list, st, cnt, thr) ==
  IF list = <<>> \/ st.exit # "none" THEN st
  ELSE ScanFromNoSameSize(Tail(list), ScanStepNoSameSize(st, Head(list), cnt, thr), cnt, thr)

\* C15: the selection scan leaves the candidate, the largest size and the
\* largest timestamp that the scan without the same-size test would leave.
SameSizeTestRedundant ==
  pc = "write" =>
    LET r == ScanFromNoSameSize(Flatten(checkpoints), ScanInit, counts, i)
    IN  /\ r.exit = "none"
        /\ latest_chpt = r.latest_chpt
        /\ maxTreeSize = r.maxTreeSize
        /\ largestTimestamp = r.largestTimestamp

\* A scan that raised maxTreeSize on the way: two tree sizes reached the
\* threshold and a checkpoint was selected.
SameSizeTestRedundantWitness ==
  /\ pc = "write"
  /\ latest_chpt # <<>>
  /\ maxTreeSize > 0
  /\ Cardinality(EligibleSizes) >= 2

\* C16: the read of the monitor files leaves every file as it was and hands
\* back, for a file of k lines, its last min(k, 2) lines in file order: the
\* whole file when k <= 2, nothing for an empty file.
ReaderWindow ==
  [][(pc = "glob" /\ pc' = "tally") =>
       /\ files' = files
       /\ Len(checkpoints') = Len(files)
       /\ \A m \in 1..Len(files) :
            LET k == Len(files[m])
                n == IF k < 2 THEN k ELSE 2
            IN  /\ Len(checkpoints'[m]) = n
                /\ \A j \in 1..n : checkpoints'[m][j] = files[m][k - n + j]]_vars

\* A read that met a file of three lines beside an empty file.
ReaderWindowWitness ==
  /\ pc = "tally"
  /\ \E m \in 1..Len(files) : Len(files[m]) = 3 /\ Len(checkpoints[m]) = 2
  /\ \E m \in 1..Len(files) : files[m] = <<>> /\ checkpoints[m] = <<>>

\* The checkpoint the selection scan went past last.
LastScanned == Flatten(checkpoints)[scanned]

\* C17: the scan starts with largestTimestamp 0 and no candidate; a step of
\* it never lowers largestTimestamp, and it replaces the candidate only by
\* the checkpoint it looks at and only when that checkpoint's timestamp is
\* strictly above largestTimestamp, which becomes that timestamp; so a
\* checkpoint whose timestamp equals the recorded one leaves the earlier
\* candidate in place.
StrictGreaterReplacement ==
  [][/\ (pc = "open" /\ pc' = "select") =>
          (largestTimestamp' = 0 /\ latest_chpt' = <<>> /\ scanned' = 0)
     /\ (pc = "select" /\ scanned' = scanned + 1) =>
          LET c == Flatten(checkpoints)[scanned']
          IN  /\ largestTimestamp' >= largestTimestamp
              /\ latest_chpt' # latest_chpt =>
                   /\ latest_chpt' = c
                   /\ HasTs(c)
                   /\ TsOf(c) > largestTimestamp
                   /\ largestTimestamp' = TsOf(c)
              /\ largestTimestamp' # largestTimestamp => latest_chpt' = c
              /\ (HasTs(c) /\ TsOf(c) <= largestTimestamp) =>
                   (latest_chpt' = latest_chpt /\ largestTimestamp' = largestTimestamp)]_vars

\* The scan has just gone past a checkpoint whose size reached the threshold
\* and whose timestamp equals the recorded one, and kept the earlier candidate.
StrictGreaterReplacementWitness ==
  /\ pc = "select"
  /\ scanned >= 2
  /\ latest_chpt # <<>>
  /\ LastScanned # latest_chpt
  /\ Sized(LastScanned) /\ HasTs(LastScanned)
  /\ Votes(SizeOf(LastScanned)) >= Quorum
  /\ SizeOf(LastScanned) = maxTreeSize
  /\ TsOf(LastScanned) = largestTimestamp

\* The scan taken step by step ends where the scan taken at once ends.
ScanStepsAgree ==
  pc = "write" =>
    LET r == SelectPass(checkpoints, counts, i)
    IN  /\ latest_chpt = r.latest_chpt
        /\ maxTreeSize = r.maxTreeSize
        /\ largestTimestamp = r.largestTimestamp

\* C18: a cycle that ends the process at the read of a monitor file or at
\* the tally (a tree size missing or no integer) has not opened the accepted
\* log, and the log holds what it held when the cycle started.
InputErrorsLeaveLog ==
  [][(pc \in {"glob", "tally"} /\ pc' = "exited") =>
       /\ exit' \in {"fatal", "panic"}
       /\ accepted' = accepted
       /\ pc = "tally" => accepted' = logBefore'
       /\ openFiles' = openFiles
       /\ openFiles' = cycles']_vars

\* The tally ended the process on a malformed tree size beside a log of
\* more lines than a truncation would keep.
InputErrorsLeaveLogWitness ==
  /\ pc = "exited"
  /\ monitors > 0
  /\ Unsized # {}
  /\ NewlineCount(accepted) > Retained

\* The order of the steps of main: one cycle after the other, each from the
\* glob through the append and the truncation to the sleep.
StepOrder ==
  {<<"glob", "tally">>, <<"tally", "open">>, <<"open", "select">>, <<"select", "write">>,
   <<"write", "truncate">>, <<"truncate", "sleep">>, <<"sleep", "glob">>,
   <<"glob", "exited">>, <<"tally", "exited">>, <<"select", "exited">>}

\* C19: unless a fatal condition ends the process, a run that has completed
\* c cycles goes on to complete one more; main moves through its steps in
\* order, so the glob of a cycle comes only after the append, the truncation
\* and the sleep of the cycle before, and each truncation completes one cycle.
CyclesFollow ==
  /\ \A c \in 0..(MaxRepeat - 1) : (cycles = c) ~> (cycles = c + 1 \/ exit # "none")
  /\ [][/\ pc' # pc => <<pc, pc'>> \in StepOrder
        /\ cycles' # cycles => (pc = "truncate" /\ cycles' = cycles + 1)
        /\ pc' = "exited" => exit' # "none"]_vars

\* A second cycle has completed after the first.
CyclesFollowWitness ==
  /\ pc = "sleep"
  /\ cycles = 2
  /\ exit = "none"
  /\ prevFiles # files

\* C20 (as claimed): a cycle starts with nothing left over from the cycles
\* before: fresh locals and no handle open on the accepted log, so that at
\* most one such handle is ever open.
NoStateAccumulates ==
  /\ pc = "glob" =>
       /\ openFiles = 0
       /\ monitors = 0 /\ i = 0 /\ checkpoints = <<>> /\ counts = <<>>
       /\ maxTreeSize = 0 /\ largestTimestamp = 0 /\ latest_chpt = <<>>
  /\ openFiles <= 1

\* What holds instead: every completed cycle has left one handle open.
HandlesGrow ==
  pc # "exited" =>
    openFiles = cycles + (IF pc \in {"select", "write", "truncate"} THEN 1 ELSE 0)

====
